---- MODULE Spec2Model ----
(***************************************************************************)
(* Model of collect_data.py: four source adapters, the merge / window /    *)
(* forward-fill of update_data, the CSV write and generate_html.           *)
(*                                                                         *)
(* A Timestamp is a count of seconds (naive wall clock).  A tz-aware index *)
(* holds UTC instants together with its UTC offset, as pandas does.        *)
(* A cell value is a record [k, n]: k is "num" (a float), "null" (NaN /    *)
(* None), "numstr" (a string holding a number) or "str" (anything else: a  *)
(* mapping, a word).                                                       *)
(***************************************************************************)
EXTENDS Integers, Sequences, FiniteSets, TLC

VARIABLES pc, resp, s, now, merged, df, csv, html, printed

vars == <<pc, resp, s, now, merged, df, csv, html, printed>>

(* ------------------------------ bounds --------------------------------- *)

\* records in one upstream response
MaxLen == 2
\* the calendar day (days since the epoch) on which the run executes
RunDay == 366
\* the hour of the day of a run that does not start at midnight
RunHour == 10

(* ------------------------------ values --------------------------------- *)

WindowDays == 365

Null == [k |-> "null", n |-> 0]
Num(x) == [k |-> "num", n |-> x]
NumStr(x) == [k |-> "numstr", n |-> x]
Str == [k |-> "str", n |-> 0]

IsNa(v) == v.k = "null"

Day(d) == d * 86400
Hours(h) == h * 3600
Date(t) == t \div 86400

Naive == [aware |-> FALSE, off |-> 0]
Aware(off) == [aware |-> TRUE, off |-> off]

expected == <<"Stablecoin_Market_Cap", "ETF_Volume_Proxy", "BTC_Realized_Cap", "Binance_BTC_OI">>

Adapters == 1..4

(* ------------------------- series and results -------------------------- *)

\* pd.Series(dtype=float, name=...)
EmptySeries(name) == [name |-> name, tz |-> Naive, rows |-> <<>>]

\* the outcome of a block of code: a value, or an exception on its way up
Ok(x) == [raised |-> FALSE, val |-> x]
Raised == [raised |-> TRUE, val |-> <<>>]

\* s.index.tz_localize(None) / s.dt.tz_localize(None): keeps the local wall
\* clock time and drops the zone
TzLocalizeNone(ser) ==
  [ser EXCEPT !.tz = Naive,
              !.rows = [i \in 1..Len(ser.rows) |->
                          [ser.rows[i] EXCEPT !.t = @ + Hours(ser.tz.off)]]]

\* if col.dt.tz is not None: col = col.dt.tz_localize(None)
StripTz(ser) == IF ser.tz.aware THEN TzLocalizeNone(ser) ELSE ser

\* float(x) as astype(float) / pd.to_numeric apply it to one entry
CanFloat(v) == v.k \in {"num", "numstr", "null"}
ToFloat(v) == IF v.k = "numstr" THEN Num(v.n) ELSE v

Labels(ser) == {ser.rows[i].t : i \in 1..Len(ser.rows)}
HasDuplicates(ser) ==
  \E i, j \in 1..Len(ser.rows) : i < j /\ ser.rows[i].t = ser.rows[j].t
IndexOf(ser) == [i \in 1..Len(ser.rows) |-> ser.rows[i].t]

(* ------------------------- upstream responses -------------------------- *)

\* What an upstream call hands back.  shape: "error" (the call or .json()
\* raised: network error, timeout, a body that is not JSON), "scalar" (a
\* value that is neither mapping nor list), "dict" (a mapping; an error
\* object has scalar values only and no data key), "list" (a list of
\* records), "frame" (the DataFrame of yfinance).  keys: the records carry
\* the fields the adapter reads.  tz: the zone of a frame's index.
Response(shape, hasdata, keys, tz, rows) ==
  [shape |-> shape, hasdata |-> hasdata, keys |-> keys, tz |-> tz, rows |-> rows]

Pending == Response("pending", FALSE, FALSE, Naive, <<>>)

BoundedSeq(S, n) == UNION {[1..m -> S] : m \in 0..n}

\* the instants the modelled sources report
tOld == Day(RunDay - WindowDays - 1)
tCut == Day(RunDay - WindowDays)
tY == Day(RunDay - 1)
tYn == Day(RunDay - 1) + Hours(12)
tF == Day(RunDay + 1)

\* America/New_York (EST), the zone of the IBIT history
NewYork == Aware(0 - 5)

StableRecords ==
  { [date |-> NumStr(tCut), totalCirculating |-> Num(1)],
    [date |-> NumStr(tY), totalCirculating |-> Num(2)],
    [date |-> NumStr(tYn), totalCirculating |-> Str] }

EtfRecords ==
  { [t |-> tY - Hours(NewYork.off), Volume |-> Num(2), Close |-> Num(3)],
    [t |-> tF - Hours(NewYork.off), Volume |-> Num(1), Close |-> Null] }

RealizedRecords ==
  { [time |-> [k |-> "iso", n |-> tOld], CapRealizedUSD |-> NumStr(3)],
    [time |-> [k |-> "iso", n |-> tY], CapRealizedUSD |-> NumStr(4)] }

OiRecords ==
  { [timestamp |-> NumStr(tY), sumOpenInterestValue |-> NumStr(5)] }

StableResponses ==
  { Response("list", FALSE, TRUE, Naive, rows) : rows \in BoundedSeq(StableRecords, MaxLen) }
  \cup { Response("error", FALSE, FALSE, Naive, <<>>),
         Response("dict", FALSE, FALSE, Naive, <<>>),
         Response("list", FALSE, TRUE, Naive,
                  <<[date |-> Str, totalCirculating |-> Num(1)]>>) }

EtfResponses ==
  { Response("frame", FALSE, TRUE, NewYork, rows) : rows \in BoundedSeq(EtfRecords, MaxLen) }
  \cup { Response("error", FALSE, FALSE, Naive, <<>>),
         Response("frame", FALSE, FALSE, NewYork,
                  <<[t |-> tY - Hours(NewYork.off), Volume |-> Num(2), Close |-> Num(3)]>>) }

RealizedResponses ==
  { Response("dict", TRUE, TRUE, Naive, rows) : rows \in BoundedSeq(RealizedRecords, MaxLen) }
  \cup { Response("error", FALSE, FALSE, Naive, <<>>),
         Response("dict", FALSE, FALSE, Naive, <<>>),
         Response("dict", TRUE, TRUE, Naive,
                  <<[time |-> [k |-> "iso", n |-> tY], CapRealizedUSD |-> Str]>>) }

OiResponses ==
  { Response("list", FALSE, TRUE, Naive, rows) : rows \in BoundedSeq(OiRecords, MaxLen) }
  \cup { Response("error", FALSE, FALSE, Naive, <<>>),
         Response("dict", FALSE, FALSE, Naive, <<>>),
         Response("scalar", FALSE, FALSE, Naive, <<>>) }

(* ------------------------------ adapters ------------------------------- *)

NaT == 0 - 1

\* pd.to_datetime(col.astype(float), unit=...) on one entry
ToDatetime(v) == IF IsNa(v) THEN NaT ELSE v.n

\* the try block of fetch_stablecoin_mcap
StablecoinBody(r) ==
  IF r.shape # "list" THEN Raised
  ELSE IF r.rows = <<>> \/ ~r.keys THEN Raised
  ELSE IF \E k \in 1..Len(r.rows) : ~CanFloat(r.rows[k].date) THEN Raised
  ELSE Ok(StripTz([name |-> "Stablecoin_Market_Cap", tz |-> Naive,
                   rows |-> [k \in 1..Len(r.rows) |->
                               [t |-> ToDatetime(r.rows[k].date),
                                v |-> r.rows[k].totalCirculating]]]))

fetch_stablecoin_mcap_uncaught(r) == StablecoinBody(r)

fetch_stablecoin_mcap(r) ==
  LET b == StablecoinBody(r)
  IN  IF b.raised THEN Ok(EmptySeries("Stablecoin_Market_Cap")) ELSE b

\* Volume * Close on one row
Product(a, b) == IF IsNa(a) \/ IsNa(b) THEN Null ELSE Num(a.n * b.n)

\* the try block of fetch_etf_volume
EtfBody(r) ==
  IF r.shape # "frame" THEN Raised
  ELSE IF r.rows = <<>> THEN Ok(EmptySeries("ETF_Volume_Proxy"))
  ELSE IF ~r.keys THEN Raised
  ELSE IF \E k \in 1..Len(r.rows) :
            r.rows[k].Volume.k \notin {"num", "null"} \/ r.rows[k].Close.k \notin {"num", "null"}
       THEN Raised
  ELSE Ok([name |-> "ETF_Volume_Proxy",
           tz |-> Naive,
           rows |-> TzLocalizeNone(
                      [name |-> "", tz |-> r.tz,
                       rows |-> [k \in 1..Len(r.rows) |->
                                   [t |-> r.rows[k].t,
                                    v |-> Product(r.rows[k].Volume, r.rows[k].Close)]]]).rows])

fetch_etf_volume(r) ==
  LET b == EtfBody(r)
  IN  IF b.raised THEN Ok(EmptySeries("ETF_Volume_Proxy")) ELSE b

\* the try block of fetch_realized_cap
RealizedBody(r) ==
  IF r.shape \in {"error", "scalar"} THEN Raised
  ELSE IF r.shape = "list" \/ ~r.hasdata THEN Ok(EmptySeries("BTC_Realized_Cap"))
  ELSE IF r.rows = <<>> \/ ~r.keys THEN Raised
  ELSE IF \E k \in 1..Len(r.rows) : r.rows[k].time.k # "iso" THEN Raised
  ELSE IF \E k \in 1..Len(r.rows) : ~CanFloat(r.rows[k].CapRealizedUSD) THEN Raised
  ELSE Ok([StripTz([name |-> "", tz |-> Aware(0),
                    rows |-> [k \in 1..Len(r.rows) |->
                                [t |-> r.rows[k].time.n,
                                 v |-> ToFloat(r.rows[k].CapRealizedUSD)]]])
             EXCEPT !.name = "BTC_Realized_Cap"])

fetch_realized_cap(r) ==
  LET b == RealizedBody(r)
  IN  IF b.raised THEN Ok(EmptySeries("BTC_Realized_Cap")) ELSE b

\* the try block of fetch_open_interest
OpenInterestBody(r) ==
  IF r.shape = "error" THEN Raised
  ELSE IF r.shape = "dict" THEN Ok(EmptySeries("Binance_BTC_OI"))
  ELSE IF r.shape # "list" THEN Ok(EmptySeries("Binance_BTC_OI"))
  ELSE IF r.rows = <<>> THEN Ok(EmptySeries("Binance_BTC_OI"))
  ELSE IF ~r.keys THEN Raised
  ELSE IF \E k \in 1..Len(r.rows) : ~CanFloat(r.rows[k].timestamp) THEN Raised
  ELSE IF \E k \in 1..Len(r.rows) : ~CanFloat(r.rows[k].sumOpenInterestValue) THEN Raised
  ELSE Ok([StripTz([name |-> "", tz |-> Naive,
                    rows |-> [k \in 1..Len(r.rows) |->
                                [t |-> ToDatetime(r.rows[k].timestamp),
                                 v |-> ToFloat(r.rows[k].sumOpenInterestValue)]]])
             EXCEPT !.name = "Binance_BTC_OI"])

fetch_open_interest(r) ==
  LET b == OpenInterestBody(r)
  IN  IF b.raised THEN Ok(EmptySeries("Binance_BTC_OI")) ELSE b

(* --------------------------- the merged table -------------------------- *)

\* pd.DataFrame(): no column, no row
EmptyFrame == [cols |-> <<>>, rows |-> <<>>]

HasColumn(tbl, name) == \E c \in 1..Len(tbl.cols) : tbl.cols[c] = name
ColIndex(tbl, name) == CHOOSE c \in 1..Len(tbl.cols) : tbl.cols[c] = name
Column(tbl, name) == [p \in 1..Len(tbl.rows) |-> tbl.rows[p].cells[ColIndex(tbl, name)]]

\* the safeguard before the merge: strip the zone of a non-empty series
Clean(ser) == IF ser.rows # <<>> /\ ser.tz.aware THEN TzLocalizeNone(ser) ELSE ser

\* the entries of q without repetition, in order of first appearance
Dedup(q) ==
  LET first == {i \in 1..Len(q) : \A j \in 1..(i - 1) : q[j] # q[i]}
  IN  [p \in 1..Cardinality(first) |->
         q[CHOOSE i \in first : Cardinality({j \in first : j <= i}) = p]]

Lookup(ser, t) ==
  IF t \in Labels(ser)
  THEN ser.rows[CHOOSE k \in 1..Len(ser.rows) : ser.rows[k].t = t].v
  ELSE Null

\* the union of the indexes, in order of first appearance
UnionIndex(ss) == Dedup(IndexOf(ss[1]) \o IndexOf(ss[2]) \o IndexOf(ss[3]) \o IndexOf(ss[4]))

\* the outer join of series whose labels are unique
OuterJoin(ss) ==
  CHOOSE tbl \in
    { [cols |-> [i \in 1..4 |-> ss[i].name],
       rows |-> [p \in 1..Len(idx) |->
                   [t |-> idx[p], cells |-> [i \in 1..4 |-> Lookup(ss[i], idx[p])]]]] :
        idx \in {UnionIndex(ss)} } : TRUE

\* the join on the index of series d, which repeats a label: a series with
\* the same index is taken row by row, one with unique labels by label
PositionalJoin(ss, d) ==
  LET idx == IndexOf(ss[d])
  IN  [cols |-> [i \in 1..4 |-> ss[i].name],
       rows |-> [p \in 1..Len(idx) |->
                   [t |-> idx[p],
                    cells |-> [i \in 1..4 |->
                                 IF HasDuplicates(ss[i]) THEN ss[i].rows[p].v
                                 ELSE Lookup(ss[i], idx[p])]]]]

WithDuplicates(ss) == {i \in 1..4 : HasDuplicates(ss[i])}

\* series d's index covers every label, and every series that repeats a
\* label has d's index
Covers(ss, d) ==
  \A j \in 1..4 : /\ Labels(ss[j]) \subseteq Labels(ss[d])
                  /\ (HasDuplicates(ss[j]) => IndexOf(ss[j]) = IndexOf(ss[d]))

MixedTz(ss) ==
  \E i, j \in 1..4 : /\ ss[i].rows # <<>> /\ ss[j].rows # <<>>
                     /\ ss[i].tz.aware /\ ~ss[j].tz.aware

\* pd.concat(cleaned_dfs, axis=1): the table, or an exception.  A series
\* that repeats a label cannot be reindexed to a different index (concat
\* raises); when all four indexes are the same the rows are matched by
\* position.  Where the repeated index covers the others the outcome
\* depends on the pandas release (its union of the indexes), so both are
\* outcomes of the call.
ConcatOutcomes(ss) ==
  LET D == WithDuplicates(ss)
  IN  IF MixedTz(ss) THEN {Raised}
      ELSE IF D = {} THEN {Ok(OuterJoin(ss))}
      ELSE IF \A i, j \in 1..4 : IndexOf(ss[i]) = IndexOf(ss[j])
           THEN {Ok(PositionalJoin(ss, CHOOSE d \in D : TRUE))}
      ELSE IF \E d \in D : Covers(ss, d)
           THEN {Raised, Ok(PositionalJoin(ss, CHOOSE d \in D : Covers(ss, d)))}
      ELSE {Raised}

TryConcatUncaught(res) == res

\* try: pd.concat(...) except Exception: final_df = pd.DataFrame()
TryConcat(res) == IF res.raised THEN Ok(EmptyFrame) ELSE res

NoCompletion(tbl) == tbl

\* for col in expected: if col not in final_df.columns: final_df[col] = nan
CompleteColumns(tbl) ==
  LET Missing(name) == ~HasColumn(tbl, name)
      added == SelectSeq(expected, Missing)
  IN  [cols |-> tbl.cols \o added,
       rows |-> [p \in 1..Len(tbl.rows) |->
                   [tbl.rows[p] EXCEPT !.cells = @ \o [c \in 1..Len(added) |-> Null]]]]

\* final_df.sort_index(): ascending labels, rows of one label in their order
SortIndex(rows) ==
  LET Before(i, j) == rows[i].t < rows[j].t \/ (rows[i].t = rows[j].t /\ i < j)
      Rank(j) == Cardinality({i \in 1..Len(rows) : Before(i, j)}) + 1
  IN  [p \in 1..Len(rows) |-> rows[CHOOSE j \in 1..Len(rows) : Rank(j) = p]]

\* final_df[final_df.index >= one_year_ago]
Window(rows, cutoff) ==
  LET Keep(r) == r.t >= cutoff IN SelectSeq(rows, Keep)

FfillNone(rows) == rows

\* final_df.ffill(): each column on its own, the last valid value carried on
Ffill(rows) ==
  LET Filled[p \in 1..Len(rows), c \in 1..Len(expected)] ==
        IF IsNa(rows[p].cells[c]) /\ p > 1 THEN Filled[p - 1, c]
        ELSE rows[p].cells[c]
  IN  [p \in 1..Len(rows) |->
         [rows[p] EXCEPT !.cells = [c \in 1..Len(@) |-> Filled[p, c]]]]

\* pd.Timestamp.now() - pd.DateOffset(days=365)
OneYearAgo(clock) == clock - Day(WindowDays)

\* the body of "if not final_df.empty"
Repair(tbl, clock) ==
  IF tbl.rows = <<>> THEN tbl
  ELSE CHOOSE out \in
         { [tbl EXCEPT !.rows = Ffill(kept)] :
             kept \in { Window(sorted, OneYearAgo(clock)) :
                          sorted \in {SortIndex(tbl.rows)} } } : TRUE

\* the wall clock readings of a run: at midnight, and later in the day
RunClock == {Day(RunDay), Day(RunDay) + Hours(RunHour)}

(* ----------------------------- rendering ------------------------------- *)

AllNa(column) == \A p \in 1..Len(column) : IsNa(column[p])

RenderAlways(tbl) == TRUE

\* the two early returns of generate_html: df.empty, and
\* df.dropna(how='all').empty
ShouldRender(tbl) ==
  /\ tbl.rows # <<>> /\ tbl.cols # <<>>
  /\ \E p \in 1..Len(tbl.rows) : \E c \in 1..Len(tbl.cols) : ~IsNa(tbl.rows[p].cells[c])

RECURSIVE TracesFrom(_, _)
TracesFrom(tbl, c) ==
  IF c = 0 THEN <<>>
  ELSE IF ~AllNa(Column(tbl, expected[c]))
       THEN Append(TracesFrom(tbl, c - 1), [row |-> c, col |-> expected[c]])
       ELSE TracesFrom(tbl, c - 1)

TracesAll(tbl) == [c \in 1..Len(expected) |-> [row |-> c, col |-> expected[c]]]

\* the four "if not df[col].isna().all(): fig.add_trace(..., row=r, col=1)"
Traces(tbl) == TracesFrom(tbl, Len(expected))

(* ------------------------------ the run -------------------------------- *)

NoFile == [written |-> FALSE, table |-> EmptyFrame]
NoHtml == [written |-> FALSE, traces |-> <<>>]

Init ==
  /\ pc = "s1"
  /\ resp = [i \in Adapters |-> Pending]
  /\ s = [i \in Adapters |-> EmptySeries("")]
  /\ now = 0
  /\ merged = EmptyFrame
  /\ df = EmptyFrame
  /\ csv = NoFile
  /\ html = NoHtml
  /\ printed = {}

\* one "s_i = fetch_...()" of update_data
Fetched(i, r, res, next) ==
  /\ resp' = [resp EXCEPT ![i] = r]
  /\ IF res.raised
     THEN pc' = "aborted" /\ s' = s
     ELSE pc' = next /\ s' = [s EXCEPT ![i] = res.val]
  /\ UNCHANGED <<now, merged, df, csv, html, printed>>

FetchStablecoin ==
  /\ pc = "s1"
  /\ \E r \in StableResponses : Fetched(1, r, fetch_stablecoin_mcap(r), "s2")

FetchEtf ==
  /\ pc = "s2"
  /\ \E r \in EtfResponses : Fetched(2, r, fetch_etf_volume(r), "s3")

FetchRealizedCap ==
  /\ pc = "s3"
  /\ \E r \in RealizedResponses : Fetched(3, r, fetch_realized_cap(r), "s4")

FetchOpenInterest ==
  /\ pc = "s4"
  /\ \E r \in OiResponses : Fetched(4, r, fetch_open_interest(r), "align")

\* the rest of update_data: safeguard, merge, completion, window, fill, CSV
Align ==
  /\ pc = "align"
  /\ \E clock \in RunClock :
       \E cleaned \in {[i \in Adapters |-> Clean(s[i])]} :
       \E outcome \in ConcatOutcomes(cleaned) :
         \E joined \in {TryConcat(outcome)} :
           IF joined.raised
           THEN /\ pc' = "aborted"
                /\ now' = clock
                /\ UNCHANGED <<merged, df, csv, printed>>
           ELSE \E full \in {CompleteColumns(joined.val)} :
                  \E final \in {Repair(full, clock)} :
                    /\ pc' = "render"
                    /\ now' = clock
                    /\ merged' = full
                    /\ df' = final
                    /\ csv' = [written |-> TRUE, table |-> final]
                    /\ printed' = IF outcome.raised THEN printed \cup {"concat"}
                                  ELSE printed
  /\ UNCHANGED <<resp, s, html>>

\* generate_html(df)
GenerateHtml ==
  /\ pc = "render"
  /\ IF ~ShouldRender(df)
     THEN /\ pc' = "done"
          /\ printed' = printed \cup {"skip"}
          /\ html' = html
     ELSE IF \E c \in 1..Len(expected) : ~HasColumn(df, expected[c])
     THEN /\ pc' = "aborted"
          /\ UNCHANGED <<printed, html>>
     ELSE /\ pc' = "done"
          /\ html' = [written |-> TRUE, traces |-> Traces(df)]
          /\ printed' = printed \cup {"generated"}
  /\ UNCHANGED <<resp, s, now, merged, df, csv>>

Next ==
  \/ FetchStablecoin
  \/ FetchEtf
  \/ FetchRealizedCap
  \/ FetchOpenInterest
  \/ Align
  \/ GenerateHtml

Spec == Init /\ [][Next]_vars

\* the interpreter runs the script to its end
LiveSpec == Spec /\ WF_vars(Next)

(* ------------------------------ properties ----------------------------- *)

\* update_data has returned its table
Returned == pc \in {"render", "done"}

\* an adapter let an exception out (the run stopped before the merge)
AdapterRaised == pc = "aborted" /\ now = 0

\* the outcomes of an upstream call that are failures for each adapter
Failed(i, r) ==
  \/ r.shape \in {"error", "scalar"}
  \/ ~r.keys
  \/ i \in {1, 4} /\ r.shape = "dict"
  \/ i = 3 /\ (r.shape = "list" \/ ~r.hasdata)
  \/ i = 1 /\ \E k \in 1..Len(r.rows) : ~CanFloat(r.rows[k].date)
  \/ i = 3 /\ \E k \in 1..Len(r.rows) : ~CanFloat(r.rows[k].CapRealizedUSD)

NoDuplicateLabels == \A i \in Adapters : ~HasDuplicates(s[i])

ValidBefore(column, p) == {q \in 1..(p - 1) : ~IsNa(column[q])}
Largest(S) == CHOOSE q \in S : \A r \in S : r <= q

\* the table as sorted and windowed, before the fill
PreFill ==
  IF merged.rows = <<>> THEN <<>>
  ELSE Window(SortIndex(merged.rows), OneYearAgo(now))

\* C1: whatever the four adapters returned, and also when the merge failed
\* and was recovered to an empty table, the table update_data returns and
\* writes to the CSV has exactly the four expected columns, each once.
C1_ColumnsAreTheFourNames ==
  Returned =>
    /\ Len(df.cols) = 4
    /\ {df.cols[c] : c \in 1..Len(df.cols)} = {expected[c] : c \in 1..4}
    /\ csv.written
    /\ csv.table.cols = df.cols

C1_Witness ==
  /\ pc = "render"
  /\ "concat" \in printed
  /\ df.cols = expected
  /\ s[1].rows # <<>>

\* C2: a returned table with at least one row has strictly ascending row
\* keys, all dated within [run date - 365 days, run date].  Stated for
\* sources whose timestamps are unique (the keys of a NamedSeries are).
C2_AscendingWithinTheYear ==
  (Returned /\ df.rows # <<>> /\ NoDuplicateLabels) =>
    /\ \A p \in 1..(Len(df.rows) - 1) : df.rows[p].t < df.rows[p + 1].t
    /\ \A p \in 1..Len(df.rows) :
         /\ Date(now) - WindowDays <= Date(df.rows[p].t)
         /\ Date(df.rows[p].t) <= Date(now)

\* C3: in the returned table a cell the source gave no value for holds the
\* value of the nearest earlier row of the table that has one in that
\* column, or stays null when there is none; a cell the source gave a value
\* for is unchanged; columns are filled independently of each other.
C3_ForwardFill ==
  Returned =>
    /\ Len(df.rows) = Len(PreFill)
    /\ \A p \in 1..Len(df.rows) :
         /\ df.rows[p].t = PreFill[p].t
         /\ \A c \in 1..4 :
              LET column == [q \in 1..Len(PreFill) |-> PreFill[q].cells[c]]
                  cell == df.rows[p].cells[c]
              IN  IF ~IsNa(column[p]) THEN cell = column[p]
                  ELSE IF ValidBefore(column, p) # {}
                       THEN cell = column[Largest(ValidBefore(column, p))]
                       ELSE cell = Null
    /\ (NoDuplicateLabels /\ "concat" \notin printed) =>
         \A p \in 1..Len(df.rows) : \A c \in 1..4 :
           LET given(q) == Lookup(s[c], df.rows[q].t)
               earlier == {q \in 1..(p - 1) : ~IsNa(given(q))}
               cell == df.rows[p].cells[c]
           IN  IF ~IsNa(given(p)) THEN cell = given(p)
               ELSE IF earlier # {} THEN cell = given(Largest(earlier))
                    ELSE cell = Null

C3_Witness ==
  /\ pc = "done"
  /\ NoDuplicateLabels
  /\ \E p \in 1..Len(df.rows) : \E c, d \in 1..4 :
       /\ p > 1
       /\ IsNa(Lookup(s[c], df.rows[p].t))
       /\ ~IsNa(df.rows[p].cells[c])
       /\ df.rows[p].cells[c] = df.rows[p - 1].cells[c]
       /\ IsNa(df.rows[1].cells[d])
       /\ ~IsNa(df.rows[p].cells[d])

C5_AlwaysWritesAndTerminates ==
  /\ [](pc # "aborted")
  /\ [](pc \in {"render", "done"} => csv.written)
  /\ [](html.written => csv.written)
  /\ <>(pc = "done" /\ csv.written)

C5_Witness ==
  /\ pc = "done"
  /\ "concat" \in printed
  /\ csv.written
  /\ csv.table.rows = <<>>
  /\ ~html.written

\* C6: when all four adapters return empty series the returned table has
\* the four columns and no non-null value, the CSV is written with it, and
\* generate_html writes nothing.
C6_AllSourcesEmpty ==
  (Returned /\ \A i \in Adapters : s[i].rows = <<>>) =>
    /\ df.cols = expected
    /\ \A p \in 1..Len(df.rows) : \A c \in 1..4 : IsNa(df.rows[p].cells[c])
    /\ csv.written
    /\ csv.table = df
    /\ ~html.written

C6_Witness ==
  /\ pc = "done"
  /\ \A i \in Adapters : s[i].rows = <<>>
  /\ resp[2].shape = "frame"
  /\ csv.written
  /\ csv.table.rows = <<>>
  /\ "skip" \in printed
  /\ ~html.written

\* C7: generate_html writes the chart exactly when its table has a row and
\* a non-null value; a written chart has a trace for exactly the columns
\* that hold a non-null value, each in its fixed panel, rows 1 to 4 in the
\* order of the four names.
C7_ChartIffData ==
  pc = "done" =>
    /\ html.written <=>
         (/\ df.rows # <<>>
          /\ \E p \in 1..Len(df.rows) : \E c \in 1..4 : ~IsNa(df.rows[p].cells[c]))
    /\ html.written =>
         /\ \A c \in 1..4 :
              (\E k \in 1..Len(html.traces) : html.traces[k].row = c)
                <=> (\E p \in 1..Len(df.rows) : ~IsNa(Column(df, expected[c])[p]))
         /\ \A k \in 1..Len(html.traces) :
              html.traces[k].col = expected[html.traces[k].row]
         /\ \A k \in 1..(Len(html.traces) - 1) :
              html.traces[k].row < html.traces[k + 1].row
    /\ ~html.written => html.traces = <<>>

C7_Witness ==
  /\ pc = "done"
  /\ html.written
  /\ Len(html.traces) = 2
  /\ html.traces[1].row = 2
  /\ html.traces[2].row = 4

\* C8: every cell of the returned table is numeric or null.
C8_CellsNumericOrNull ==
  Returned =>
    \A p \in 1..Len(df.rows) : \A c \in 1..Len(df.cols) :
      df.rows[p].cells[c].k \in {"num", "null"}

\* C9: every row key of the returned table is a date without time of day,
\* and no two rows fall on the same calendar date.  Stated for sources
\* whose timestamps are unique (the keys of a NamedSeries are).
C9_OneRowPerDate ==
  (Returned /\ NoDuplicateLabels) =>
    /\ \A p \in 1..Len(df.rows) : df.rows[p].t % 86400 = 0
    /\ \A p, q \in 1..Len(df.rows) :
         p # q => Date(df.rows[p].t) # Date(df.rows[q].t)

\* C10: windowing drops exactly the rows dated before (run date - 365
\* days): every merged row dated on or after that day is in the returned
\* table, at whatever time of day the run executes.
C10_WindowKeepsTheYear ==
  Returned =>
    /\ \A p \in 1..Len(merged.rows) :
         Date(merged.rows[p].t) >= Date(now) - WindowDays
           => \E q \in 1..Len(df.rows) : df.rows[q].t = merged.rows[p].t
    /\ \A q \in 1..Len(df.rows) : Date(df.rows[q].t) >= Date(now) - WindowDays
    /\ \A q \in 1..(Len(df.rows) - 1) : df.rows[q].t <= df.rows[q + 1].t

====
